---- MODULE Spec2Model ----
(***************************************************************************)
(* Model of the "GN to Shape Keys" addon (src/__init__.py): the three      *)
(* operators GEO_OT_GeoNodesPrep, GEO_OT_MergeToShapeKeys and              *)
(* GEO_OT_RenameAndDelete acting on the host's scene: the objects of the   *)
(* data store with their names, shape keys and animation curves, the       *)
(* selection, the active object, the editing mode and the scene time.      *)
(*                                                                         *)
(* Host behaviour the operators rely on is modelled as the host does it:   *)
(* names are unique per data store (a taken name gets a ".NNN" suffix),    *)
(* shape key names are unique per key block, a keyframe inserted on a      *)
(* frame that already holds one replaces it, an exception raised inside    *)
(* execute() ends the invocation and rolls nothing back.  All snapshots    *)
(* are taken to share one vertex count, so that join_shapes accepts them.  *)
(***************************************************************************)
EXTENDS Integers, Sequences, FiniteSets

\* ---------------------------------------------------------------- bounds
\* Largest value of the "Time Samples" setting the user enters.
MaxFrames == 3
\* Largest number of invocations that pass their validation in one session.
MaxRuns == 5

\* ------------------------------------------------------------- constants
\* step = 10 frames between two samples / half-width of a triangle.
FrameStep == 10
\* Y offset between two copies.
YStep == 2
\* Frames per shape in the absolute-mode eval_time animation.
AbsFramesPerKey == 24
\* First keyframe of the eval_time animation.
AbsStartFrame == 1

VARIABLES
  objects,   \* bpy.data.objects / scene.objects, in link order
  mode,      \* context.mode: "OBJECT" or "EDIT"
  frame,     \* scene.frame_current
  call,      \* the operator invocation that produced this state, if any
  log,       \* the operator invocations since the scene was opened
  runs       \* how many of them passed their validation

vars == <<objects, mode, frame, call, log, runs>>

\* ----------------------------------------------------------------- names
\* A name "<stem><k>" or "<stem><k>.<dup as NNN>"; k = 0 and dup = 0 stand
\* for no number and no suffix.
Name(stem, k, dup) == [stem |-> stem, k |-> k, dup |-> dup]

\* o.name.startswith("copy")
IsCopy(o) == o.name.stem = "copy"

\* int(o.name.replace("copy", "")) with the except branch: the remainder of
\* "copy3" is "3"; the remainder of "copy3.001" is "3.001", no integer
\* literal, so int() raises ValueError and the index is 0.
idx(o) == IF o.name.dup = 0 THEN o.name.k ELSE 0

\* The smallest d >= from such that name with suffix d is not in used.
RECURSIVE FreeDup(_, _, _)
FreeDup(n, used, from) ==
  IF [n EXCEPT !.dup = from] \in used THEN FreeDup(n, used, from + 1) ELSE from

\* The data store's unique naming: a free name is kept, a taken name gets
\* the smallest free ".NNN" suffix.
UniqueIdName(n, used) ==
  IF n \notin used THEN n ELSE [n EXCEPT !.dup = FreeDup(n, used, 1)]

\* A key block's unique naming (BLI_uniquename): a taken name gets the next
\* free suffix above its own.
UniqueKeyName(n, used) ==
  IF n \notin used THEN n ELSE [n EXCEPT !.dup = FreeDup(n, used, n.dup + 1)]

\* ------------------------------------------------------------- sequences
Range(s) == {s[i] : i \in 1..Len(s)}

NamesOf(s) == {s[i].name : i \in 1..Len(s)}

\* Stable insertion of x into the idx-sorted sequence s: after every element
\* whose key is <= its own.
RECURSIVE InsertByIdx(_, _)
InsertByIdx(s, x) ==
  IF s = <<>> THEN <<x>>
  ELSE IF idx(x) < idx(s[Len(s)])
       THEN Append(InsertByIdx(SubSeq(s, 1, Len(s) - 1), x), s[Len(s)])
       ELSE Append(s, x)

\* A faulty variant: the list is left in the order of scene.objects.
SortByIdx_Unsorted(s) == s

\* copies.sort(key=idx): a stable sort, ties keep the order of scene.objects.
RECURSIVE SortByIdx(_)
SortByIdx(s) ==
  IF s = <<>> THEN <<>>
  ELSE InsertByIdx(SortByIdx(SubSeq(s, 1, Len(s) - 1)), s[Len(s)])

\* [o for o in scene.objects if o.name.startswith("copy")]
Copies(objs) == SelectSeq(objs, IsCopy)

\* -------------------------------------------------------------- keyframes
\* keyframe_insert(frame=f) with the property at v: a keyframe already on f
\* is replaced and keeps its interpolation, a new one gets the default.
KeyframeInsert(fc, f, v) ==
  LET old == {p \in fc : p.f = f}
      ipo == IF old = {} THEN "BEZIER" ELSE (CHOOSE p \in old : TRUE).ipo
  IN  (fc \ old) \cup {[f |-> f, v |-> v, ipo |-> ipo]}

\* for kp in fcu.keyframe_points: kp.interpolation = "LINEAR"
ForceLinear(fc) == {[p EXCEPT !.ipo = "LINEAR"] : p \in fc}

\* --------------------------------------------------------------- objects
\* The smallest identity no live object has (an object's address).
FreshId(objs) ==
  CHOOSE i \in 1..(Len(objs) + 1) :
    /\ \A j \in 1..Len(objs) : objs[j].id # i
    /\ \A h \in 1..(i - 1) : \E j \in 1..Len(objs) : objs[j].id = h

NewObject(id, name, nodes, bakedAt, y) ==
  [id |-> id, name |-> name, nodes |-> nodes, bakedAt |-> bakedAt, y |-> y,
   sel |-> FALSE, active |-> FALSE,
   keys |-> <<>>, rel |-> TRUE, evalfc |-> {}]

\* The object with identity id.
ObjectOf(objs, id) == CHOOSE o \in Range(objs) : o.id = id

Ids(objs) == {objs[i].id : i \in 1..Len(objs)}

\* ------------------------------------------------------------ invocations
\* An invocation: the operator, the settings it read (selected_object is an
\* object's identity, 0 for none; a setting the invocation did not get to
\* use is recorded as 0 or FALSE), what it returned and what it reported.
NoCall == [op |-> "none", result |-> "none", reports |-> <<>>,
           selected_object |-> 0, total |-> 0, use_relative |-> FALSE]

Invocation(op, result, reports, sel, total, rel) ==
  [op |-> op, result |-> result, reports |-> reports,
   selected_object |-> sel, total |-> total, use_relative |-> rel]

\* The log keeps the first three invocations; a longer run is LongRun.
LogEntry(c) == [op |-> c.op, result |-> c.result, total |-> c.total,
                use_relative |-> c.use_relative]

LongRun == << LogEntry([NoCall EXCEPT !.op = "long"]) >>

Logged(l, c) ==
  IF l = LongRun \/ Len(l) >= 3 THEN LongRun ELSE Append(l, LogEntry(c))

\* A scene with two objects: "GeoObj" carries a geometry-nodes modifier and
\* is selected and active, "Plain" carries no modifier.
Init ==
  /\ objects = << [NewObject(1, Name("GeoObj", 0, 0), TRUE, -1, 3)
                     EXCEPT !.sel = TRUE, !.active = TRUE],
                  NewObject(2, Name("Plain", 0, 0), FALSE, -1, 0) >>
  /\ mode = "OBJECT"
  /\ frame = 1
  /\ call = NoCall
  /\ log = <<>>
  /\ runs = 0

\* ------------------------------------------------------- GEO_OT_GeoNodesPrep
\* A faulty variant: the offset is 2*i, the first copy on top of the source.
PrepCopy_OffByOne(objs, base_obj, i) ==
  Append(objs,
         NewObject(FreshId(objs),
                   UniqueIdName(Name("copy", i + 1, 0), NamesOf(objs)),
                   FALSE, i * FrameStep, base_obj.y + YStep * i))

\* One pass of the loop body for sample i (0-based) on the data store objs.
PrepCopy(objs, base_obj, i) ==
  Append(objs,
         NewObject(FreshId(objs),
                   UniqueIdName(Name("copy", i + 1, 0), NamesOf(objs)),
                   FALSE, i * FrameStep, base_obj.y + YStep * (i + 1)))

\* for i in range(total), from sample i on.
RECURSIVE PrepLoop(_, _, _, _)
PrepLoop(objs, base_obj, i, total) ==
  IF i >= total THEN objs
  ELSE PrepLoop(PrepCopy(objs, base_obj, i), base_obj, i + 1, total)

\* A faulty variant: the modifier check always succeeds.
HasGeoNodes_Always(base_obj) == TRUE

\* next((m for m in base_obj.modifiers if m.type == "NODES"), None)
HasGeoNodes(base_obj) == base_obj.nodes

\* execute() with props.selected_object = sel (0: none) and
\* props.total_frames = total.
GEO_OT_GeoNodesPrep(sel, total) ==
  IF sel = 0
  THEN /\ call' = Invocation("prep", "CANCELLED", <<"ERROR">>, sel, 0, FALSE)
       /\ log' = Logged(log, call')
       /\ UNCHANGED <<objects, mode, frame, runs>>
  ELSE IF ~HasGeoNodes(ObjectOf(objects, sel))
  THEN /\ call' = Invocation("prep", "CANCELLED", <<"ERROR">>, sel, 0, FALSE)
       /\ log' = Logged(log, call')
       /\ UNCHANGED <<objects, mode, frame, runs>>
  ELSE /\ runs < MaxRuns
       /\ runs' = runs + 1
       /\ objects' = PrepLoop(objects, ObjectOf(objects, sel), 0, total)
       /\ frame' = (total - 1) * FrameStep
       /\ call' = Invocation("prep", "FINISHED", <<"INFO">>, sel, total, FALSE)
       /\ log' = Logged(log, call')
       /\ UNCHANGED mode

\* The settings the user enters: no object, or one of the scene's two initial
\* objects, and a sample count.
Prep == \E sel \in {0, 1, 2}, total \in 1..MaxFrames :
          GEO_OT_GeoNodesPrep(sel, total)

\* --------------------------------------------------- GEO_OT_MergeToShapeKeys
\* bpy.ops.object.shape_key_add(from_mix=False): the first key of a mesh is
\* "Basis", a later one "Key <number of keys before it>".
ShapeKeyAdd(keys) ==
  LET n == IF keys = <<>> THEN Name("Basis", 0, 0) ELSE Name("Key", Len(keys), 0)
  IN  Append(keys, [name |-> UniqueKeyName(n, NamesOf(keys)), fc |-> {}])

\* A faulty variant: the joined key gets a generated name, not the object's.
JoinShapes_Unnamed(keys, o) ==
  Append(keys, [name |-> UniqueKeyName(Name("Key", Len(keys), 0), NamesOf(keys)),
                fc |-> {}])

\* bpy.ops.object.join_shapes() with o the one other selected object: a new
\* key named after o.
JoinShapes(keys, o) ==
  Append(keys, [name |-> UniqueKeyName(o.name, NamesOf(keys)), fc |-> {}])

\* for o in rest: select, join_shapes, deselect.
RECURSIVE JoinLoop(_, _)
JoinLoop(keys, rest) ==
  IF rest = <<>> THEN keys ELSE JoinLoop(JoinShapes(keys, Head(rest)), Tail(rest))

\* select_all(DESELECT); copy1.select_set(True); active = copy1.  Every o of
\* rest is selected for its join and deselected after it.
SelectOnly(objs, id) ==
  [j \in 1..Len(objs) |->
     [objs[j] EXCEPT !.sel = (objs[j].id = id), !.active = (objs[j].id = id)]]

\* A faulty variant: the end frame counts every copy, the base included.
AbsoluteBranch_EndFrame(o, n) ==
  [o EXCEPT
     !.rel = FALSE,
     !.evalfc = ForceLinear(
                  KeyframeInsert(
                    KeyframeInsert(o.evalfc, AbsStartFrame, 0),
                    n * AbsFramesPerKey, (n - 1) * FrameStep))]

\* The absolute branch on the key block of copy1, n = len(copies).
AbsoluteBranch(o, n) ==
  [o EXCEPT
     !.rel = FALSE,
     !.evalfc = ForceLinear(
                  KeyframeInsert(
                    KeyframeInsert(o.evalfc, AbsStartFrame, 0),
                    (n - 1) * AbsFramesPerKey, (n - 1) * FrameStep))]

\* The positions, in key_blocks, of the keys whose name is not "Basis".
ShapeKeys(keys) ==
  LET pos == [j \in 1..Len(keys) |-> j]
      NotBasis(j) == keys[j].name # Name("Basis", 0, 0)
  IN  SelectSeq(pos, NotBasis)

\* A faulty variant: the closing keyframe is inserted for the last key too.
Triangle_AlwaysClosed(fc, i, n) ==
  LET start == i * FrameStep
      peak  == start + FrameStep
      end   == start + 2 * FrameStep
  IN  KeyframeInsert(KeyframeInsert(KeyframeInsert(fc, start, 0), peak, 1),
                     end, 0)

\* The three inserts of the loop body for the key at ordinal i of n.
Triangle(fc, i, n) ==
  LET start == i * FrameStep
      peak  == start + FrameStep
      end   == start + 2 * FrameStep
      up    == KeyframeInsert(KeyframeInsert(fc, start, 0), peak, 1)
  IN  IF i < n - 1 THEN KeyframeInsert(up, end, 0) ELSE up

\* One pass of the loop body: the inserts on the key at ordinal i, then
\* linear interpolation on every value curve of the key block.
RelativeStep(keys, sks, i) ==
  LET keyed == [keys EXCEPT ![sks[i + 1]].fc = Triangle(@, i, Len(sks))]
  IN  [j \in 1..Len(keyed) |-> [keyed[j] EXCEPT !.fc = ForceLinear(@)]]

\* for i, sk in enumerate(shape_keys), from ordinal i on.
RECURSIVE RelativeLoop(_, _, _)
RelativeLoop(keys, sks, i) ==
  IF i >= Len(sks) THEN keys
  ELSE RelativeLoop(RelativeStep(keys, sks, i), sks, i + 1)

\* The relative branch on the key block of copy1.
RelativeBranch(o) ==
  [o EXCEPT !.keys = RelativeLoop(o.keys, ShapeKeys(o.keys), 0)]

\* One report per pass of the loop: self.report is inside the loop body.
RelativeReports(o) == [j \in 1..Len(ShapeKeys(o.keys)) |-> "INFO"]

\* copy1 after steps 1 and 2: the Basis key and one key per object of rest.
Joined(copy1, rest) ==
  [copy1 EXCEPT !.keys = JoinLoop(ShapeKeyAdd(copy1.keys), rest)]

\* The data store with the object of o's identity replaced by o.
Replaced(objs, o) ==
  [j \in 1..Len(objs) |-> IF objs[j].id = o.id THEN o ELSE objs[j]]

\* execute() with props.use_relative = rel.  In the absolute branch the name
\* shape_keys is never bound, so the loop that follows the branch raises
\* NameError after the branch has reported.
GEO_OT_MergeToShapeKeys(rel) ==
  LET copies == Copies(objects)
      sorted == SortByIdx(copies)
      copy1  == sorted[1]
      rest   == Tail(sorted)
      picked == SelectOnly(objects, copy1.id)
      joined == Joined(ObjectOf(picked, copy1.id), rest)
  IN
  /\ mode' = "OBJECT"
  /\ UNCHANGED frame
  /\ IF Len(copies) < 2
     THEN /\ call' = Invocation("merge", "CANCELLED", <<"ERROR">>, 0, 0, FALSE)
          /\ UNCHANGED <<objects, runs>>
     ELSE IF ~rel
     THEN /\ runs < MaxRuns
          /\ runs' = runs + 1
          /\ objects' = Replaced(picked, AbsoluteBranch(joined, Len(copies)))
          /\ call' = Invocation("merge", "EXCEPTION", <<"INFO">>, 0, 0, rel)
     ELSE /\ runs < MaxRuns
          /\ runs' = runs + 1
          /\ objects' = Replaced(picked, RelativeBranch(joined))
          /\ call' = Invocation("merge", "FINISHED", RelativeReports(joined),
                                0, 0, rel)
  /\ log' = Logged(log, call')

Merge == \E rel \in BOOLEAN : GEO_OT_MergeToShapeKeys(rel)

\* ---------------------------------------------------- GEO_OT_RenameAndDelete
\* A faulty variant: the rename is lost.
Renamed_Kept(objs, copy1) == copy1

\* copy1.name = "shapekey_object": the data store keeps names unique.
Renamed(objs, copy1) ==
  [copy1 EXCEPT !.name = UniqueIdName(Name("shapekey_object", 0, 0),
                                      NamesOf(objs) \ {copy1.name})]

\* A faulty variant: the last of the other copies is left in the scene.
Removed_AllButLast(objs, others) ==
  LET Kept(o) == o.id \notin Ids(SubSeq(others, 1, Len(others) - 1))
  IN  SelectSeq(objs, Kept)

\* for obj in other_copies: bpy.data.objects.remove(obj, do_unlink=True)
Removed(objs, others) ==
  LET Kept(o) == o.id \notin Ids(others)
  IN  SelectSeq(objs, Kept)

\* context.mode follows the active object: with none left it is "OBJECT".
ModeOf(objs, m) ==
  IF \E j \in 1..Len(objs) : objs[j].active THEN m ELSE "OBJECT"

GEO_OT_RenameAndDelete ==
  LET copies == Copies(objects)
      sorted == SortByIdx(copies)
      copy1  == sorted[1]
      other_copies == Tail(sorted)
  IN
  /\ IF copies = <<>>
     THEN /\ call' = Invocation("cleanup", "CANCELLED", <<"ERROR">>, 0, 0, FALSE)
          /\ UNCHANGED <<objects, mode, runs>>
     ELSE /\ runs < MaxRuns
          /\ runs' = runs + 1
          /\ objects' = Removed(Replaced(objects, Renamed(objects, copy1)),
                                other_copies)
          /\ mode' = ModeOf(objects', mode)
          /\ call' = Invocation("cleanup", "FINISHED", <<"INFO">>, 0, 0, FALSE)
  /\ log' = Logged(log, call')
  /\ UNCHANGED frame

\* ------------------------------------------------------------------ the user
\* The user toggles edit mode on the active object.
UserToggleMode ==
  /\ \E j \in 1..Len(objects) : objects[j].active
  /\ mode' = IF mode = "OBJECT" THEN "EDIT" ELSE "OBJECT"
  /\ call' = NoCall
  /\ UNCHANGED <<objects, frame, log, runs>>

Next ==
  \/ Prep
  \/ Merge
  \/ GEO_OT_RenameAndDelete
  \/ UserToggleMode

Spec == Init /\ [][Next]_vars

\* ==================================================================== claims
\* What the formulas below say of one step: the step is an invocation of the
\* operator op that returned result.
Returned(op, result) == call'.op = op /\ call'.result = result

\* (frame, value) of every keyframe of a curve, and whether all are linear.
Points(fc) == {<<p.f, p.v>> : p \in fc}

AllLinear(fc) == \A p \in fc : p.ipo = "LINEAR"

\* The active object of a data store that has one.
ActiveOf(objs) == CHOOSE o \in Range(objs) : o.active

\* The place of copy c in copies.sort(key=idx), said without sorting: one
\* more than the number of copies with a smaller index, or with the same
\* index and an earlier place in the scene.
RankOf(objs, c) ==
  LET cs == Copies(objs)
      at(o) == CHOOSE j \in 1..Len(cs) : cs[j].id = o.id
  IN  1 + Cardinality({j \in 1..Len(cs) :
                         \/ idx(cs[j]) < idx(c)
                         \/ idx(cs[j]) = idx(c) /\ j < at(c)})

\* The copy of objs at place r of the sorted list.
CopyAtRank(objs, r) == CHOOSE c \in Range(Copies(objs)) : RankOf(objs, c) = r

\* ----------------------------------------------------------------------- C1
\* What every validated prep invocation does apart from naming: exactly N
\* objects are appended, nothing else is created, removed or changed, the
\* k-th is baked at frame (k-1)*10 and lies at the source's Y plus 2*k.
C1_Effect ==
  LET n   == call'.total
      src == ObjectOf(objects, call'.selected_object)
  IN  /\ n >= 1
      /\ Len(objects') = Len(objects) + n
      /\ SubSeq(objects', 1, Len(objects)) = objects
      /\ \A k \in 1..n :
           LET o == objects'[Len(objects) + k]
           IN  /\ o.bakedAt = (k - 1) * 10
               /\ o.y = src.y + 2 * k
               /\ o.id \notin Ids(objects)

\* C1 as claimed: every validated prep invocation adds exactly N objects
\* named "copy1" .. "copyN", the k-th baked at (k-1)*10 and placed at the
\* source's location plus 2*k in Y; nothing else is created or removed.
C1_AsClaimed ==
  [][Returned("prep", "FINISHED") =>
       /\ C1_Effect
       /\ \A k \in 1..call'.total :
            objects'[Len(objects) + k].name = Name("copy", k, 0)]_vars

\* C1 (amended): every validated prep invocation adds exactly N objects, the
\* k-th baked at (k-1)*10 and placed at the source's location plus 2*k in Y,
\* and nothing else is created or removed; the k-th is named "copy<k>" when
\* no object has that name, and otherwise "copy<k>.NNN" with the smallest
\* suffix no object has.
C1_PrepAddsCopies ==
  [][Returned("prep", "FINISHED") =>
       /\ C1_Effect
       /\ \A k \in 1..call'.total :
            LET nm == objects'[Len(objects) + k].name
            IN  /\ nm.stem = "copy" /\ nm.k = k
                /\ nm \notin NamesOf(objects)
                /\ \A d \in 0..(nm.dup - 1) :
                     Name("copy", k, d) \in NamesOf(objects)]_vars

\* A prep of two samples has run on a scene that already held "copy1" and
\* "copy2": the new objects are "copy1.001" and "copy2.001".
C1_Witness ==
  /\ call.op = "prep" /\ call.result = "FINISHED" /\ call.total = 2
  /\ Len(objects) >= 6
  /\ objects[Len(objects) - 1].name = Name("copy", 1, 1)
  /\ objects[Len(objects)].name = Name("copy", 2, 1)
  /\ objects[Len(objects)].bakedAt = 10

\* ----------------------------------------------------------------------- C2
\* The log reads prep(N), merge, cleanup with N >= 2 and nothing after it.
C2_Scenario ==
  /\ Len(log) = 3
  /\ log[1].op = "prep" /\ log[1].result = "FINISHED" /\ log[1].total >= 2
  /\ log[2].op = "merge"
  /\ log[3].op = "cleanup"

\* C2: from the initial scene, prep(N); merge; cleanup with N >= 2 leaves
\* exactly one of the snapshots, the former "copy1" (baked at frame 0, at the
\* source's Y plus 2) now named "shapekey_object", holding N shape keys: the
\* Basis and "copy2" .. "copyN" in that order; no "copy*" object exists; for
\* N = 3 in absolute mode the eval_time curve is (1, 0), (48, 20).
C2_Pipeline ==
  C2_Scenario =>
    LET n == log[1].total
        r == objects[3]
    IN  /\ Len(objects) = 3
        /\ objects[1].name = Name("GeoObj", 0, 0)
        /\ objects[2].name = Name("Plain", 0, 0)
        /\ r.name = Name("shapekey_object", 0, 0)
        /\ r.id = 3 /\ r.bakedAt = 0 /\ r.y = objects[1].y + 2
        /\ Len(r.keys) = n
        /\ r.keys[1].name = Name("Basis", 0, 0)
        /\ \A k \in 2..n : r.keys[k].name = Name("copy", k, 0)
        /\ \A j \in 1..Len(objects) : ~IsCopy(objects[j])
        /\ (n = 3 /\ ~log[2].use_relative) =>
             Points(r.evalfc) = {<<1, 0>>, <<48, 20>>}

\* The scenario has run with N = 3 in absolute mode.
C2_Witness ==
  /\ C2_Scenario
  /\ log[1].total = 3 /\ ~log[2].use_relative
  /\ Len(objects) = 3 /\ Len(objects[3].keys) = 3

\* ----------------------------------------------------------------------- C3
\* What an absolute-mode merge of K snapshots leaves on its base (the object
\* it made active): relative blending off, the eval_time curve exactly
\* (1, 0) and ((K-1)*24, (K-1)*10), both linear, no value curve touched.
C3_Effect ==
  LET k    == Len(Copies(objects))
      base == ActiveOf(objects')
      was  == ObjectOf(objects, base.id)
  IN  /\ ~base.rel
      /\ base.evalfc = {[f |-> 1, v |-> 0, ipo |-> "LINEAR"],
                        [f |-> (k - 1) * 24, v |-> (k - 1) * 10,
                         ipo |-> "LINEAR"]}
      /\ \A j \in 1..Len(base.keys) :
           base.keys[j].fc = IF j <= Len(was.keys) THEN was.keys[j].fc ELSE {}

\* The step is an absolute-mode merge that passed the two-snapshots check.
C3_Step ==
  /\ call'.op = "merge" /\ call'.result # "CANCELLED"
  /\ ~call'.use_relative

\* C3 as claimed: after any absolute-mode merge with K >= 2 snapshots the
\* eval_time curve has exactly the two keyframes.
C3_AsClaimed == [][C3_Step => C3_Effect]_vars

\* C3 (amended): after an absolute-mode merge with K >= 2 snapshots, on a
\* base whose eval_time curve held no keyframe on a frame other than 1 and
\* (K-1)*24 before the invocation, relative blending is off and the curve has
\* exactly the keyframes (1, 0) and ((K-1)*24, (K-1)*10), both linear; the
\* invocation authors no value curve.
C3_AbsoluteCurve ==
  [][(/\ C3_Step
      /\ \A p \in ObjectOf(objects, ActiveOf(objects').id).evalfc :
           p.f \in {1, (Len(Copies(objects)) - 1) * 24})
     => C3_Effect]_vars

\* An absolute-mode merge of three snapshots has run: (1, 0) and (48, 20).
C3_Witness ==
  /\ call.op = "merge" /\ call.result # "CANCELLED" /\ ~call.use_relative
  /\ Len(Copies(objects)) = 3
  /\ \E j \in 1..Len(objects) :
       /\ objects[j].active /\ ~objects[j].rel
       /\ Points(objects[j].evalfc) = {<<1, 0>>, <<48, 20>>}

C5_AsClaimed ==
  (call.op = "merge" /\ call.result # "CANCELLED") =>
    (call.result = "FINISHED" /\ call.reports # <<>>)

\* ----------------------------------------------------------------------- C6
\* The step is one of the four precondition violations: prep with no object
\* selected, prep on an object without a geometry-nodes modifier, merge with
\* fewer than two "copy*" objects, cleanup with no "copy*" object.
C6_Violation ==
  \/ /\ call'.op = "prep"
     /\ call'.selected_object = 0
  \/ /\ call'.op = "prep"
     /\ call'.selected_object # 0
     /\ ~ObjectOf(objects, call'.selected_object).nodes
  \/ /\ call'.op = "merge"
     /\ Cardinality({j \in 1..Len(objects) : objects[j].name.stem = "copy"}) < 2
  \/ /\ call'.op = "cleanup"
     /\ \A j \in 1..Len(objects) : objects[j].name.stem # "copy"

\* C6: each of the four precondition violations is reported as an error,
\* returns a cancelled result, and leaves the objects of the scene, their
\* names, their shape keys and their animation curves as they were.
C6_ViolationsCancel ==
  [][C6_Violation =>
       /\ call'.result = "CANCELLED"
       /\ call'.reports = <<"ERROR">>
       /\ objects' = objects]_vars

\* A prep on "Plain", which has no modifier, was cancelled on a scene that
\* holds snapshots.
C6_Witness ==
  /\ call.op = "prep" /\ call.result = "CANCELLED" /\ call.selected_object = 2
  /\ call.reports = <<"ERROR">>
  /\ Len(Copies(objects)) >= 2

\* ----------------------------------------------------------------------- C7
\* C7 as claimed: a cancelled invocation has mutated no host state: the
\* editing mode, the selection, the active object and the scene time are
\* the same after it as before it.
C7_AsClaimed ==
  [][call'.result = "CANCELLED" =>
       /\ mode' = mode
       /\ frame' = frame
       /\ objects' = objects]_vars

\* ----------------------------------------------------------------------- C8
\* What every cleanup that finds a snapshot does apart from naming: the
\* snapshot first in index order survives, every other snapshot is gone, and
\* every object that is no snapshot is as it was.
C8_Effect(newName) ==
  LET b == CopyAtRank(objects, 1)
  IN  /\ call'.result = "FINISHED"
      /\ Ids(objects') = (Ids(objects) \ Ids(Copies(objects))) \cup {b.id}
      /\ Len(objects') = Cardinality(Ids(objects'))
      /\ \A j \in 1..Len(objects) :
           ~IsCopy(objects[j]) => objects[j] \in Range(objects')
      /\ ObjectOf(objects', b.id) = [b EXCEPT !.name = newName]

\* The step is a cleanup on a scene with at least one snapshot.
C8_Step == call'.op = "cleanup" /\ Copies(objects) # <<>>

C9_MergeOrder ==
  LET base == ActiveOf(objects')
      was  == ObjectOf(objects, base.id)
      n    == Len(Copies(objects))
  IN  /\ IsCopy(was)
      /\ RankOf(objects, was) = 1
      /\ \A c \in Range(Copies(objects)) : idx(was) <= idx(c)
      /\ Len(base.keys) = Len(was.keys) + n
      /\ \A j \in 1..Len(was.keys) : base.keys[j].name = was.keys[j].name
      /\ \A r \in 2..n :
           LET key == base.keys[Len(was.keys) + r].name
               o   == CopyAtRank(objects, r)
           IN  /\ key.stem = o.name.stem /\ key.k = o.name.k
               /\ was.keys = <<>> => key = o.name
               /\ idx(CopyAtRank(objects, r - 1)) <= idx(o)

\* The object a cleanup kept is the snapshot first in index order.
C9_CleanupOrder ==
  \E b \in Range(Copies(objects)) :
    /\ \A c \in Range(Copies(objects)) : idx(b) <= idx(c)
    /\ RankOf(objects, b) = 1
    /\ b.id \in Ids(objects')
    /\ \A c \in Range(Copies(objects)) : c.id # b.id => c.id \notin Ids(objects')

C10_NoCopy == \A j \in 1..Len(objects) : objects[j].name.stem # "copy"

\* C10: after a finished cleanup no object's name begins with "copy"; while
\* that is so, every merge and every cleanup is cancelled with its error and
\* changes no object, shape key or curve; and no merge or cleanup ever
\* deletes or renames an object named "shapekey_object".
C10_AfterCleanup ==
  /\ []((call.op = "cleanup" /\ call.result = "FINISHED") => C10_NoCopy)
  /\ [][(C10_NoCopy /\ call'.op \in {"merge", "cleanup"}) =>
          /\ call'.result = "CANCELLED"
          /\ call'.reports = <<"ERROR">>
          /\ objects' = objects]_vars
  /\ [][call'.op \in {"merge", "cleanup"} =>
          \A j \in 1..Len(objects) :
            objects[j].name.stem = "shapekey_object" =>
              \E h \in 1..Len(objects') :
                /\ objects'[h].id = objects[j].id
                /\ objects'[h].name = objects[j].name]_vars

\* After a finished cleanup a further merge was invoked and cancelled; the
\* result object is still there.
C10_Witness ==
  /\ Len(log) = 3
  /\ log[2].op = "cleanup" /\ log[2].result = "FINISHED"
  /\ log[3].op = "merge" /\ log[3].result = "CANCELLED"
  /\ call.op = "merge"
  /\ Name("shapekey_object", 0, 0) \in NamesOf(objects)
  /\ C10_NoCopy
====
